---- MODULE Spec2Model ----
(***************************************************************************)
(* Model of rig-agent-pipeline-example: the CustomerFeedback record        *)
(* (src/src/models.rs) and the chunked-embedding / retrieval-augmented     *)
(* pipeline driven by main (src/src/main.rs).                              *)
(*                                                                         *)
(* Text is modelled as strings; the prompt of the map stage is held as the *)
(* sequence of its parts (template pieces and slot values, in order), so   *)
(* that its query and notice can be told apart.  An f64 is modelled by a   *)
(* non-negative number of eighths (n stands for n/8), which is exactly     *)
(* representable in binary, so that {:.1} and {:.2} formatting is rounding *)
(* of the exact value.  A String that is compared (the customer_id) is a   *)
(* sequence of byte codes.                                                 *)
(***************************************************************************)
EXTENDS Integers, Sequences, FiniteSets, TLC

VARIABLES
    \* ---- records under test (models.rs) ----
    recs,           \* the CustomerFeedback values under test: <<a, b>>
    cmp_out,        \* result of the last comparison of a with b, if any
    gen_calls,      \* how many times generate_summary ran on each record
    first_out,      \* profile_summary right after the first generate_summary
    \* ---- main (main.rs) ----
    pc,             \* position of main
    chunk_size,     \* CHUNK_SIZE
    file_exists,    \* whether data_path exists
    rows,           \* the rows of the CSV file
    customers,      \* Vec<CustomerFeedback> after loading
    chunks,         \* Vec<Vec<CustomerFeedback>>
    chunk_num,      \* 0-based index of the chunk the loop is at
    chunk_out,      \* embeddings returned by the build of the current chunk
    all_embeddings, \* Vec<(CustomerFeedback, Embedding)>
    events,         \* embedding calls and sleeps of the chunk loop, in order
    index,          \* entries of the vector store; None before line 99
    query_num,      \* 0-based index of the query the loop is at
    passthrough_out,\* output of the passthrough branch, None before
    lookup_out,     \* output of the lookup branch, None before
    prompt,         \* output of the map stage, None before
    llm_calls,      \* prompts the agent was called with, this invocation
    llm_out,        \* what the agent returned, None before
    call_out,       \* what chain.call returned, None before
    submitted,      \* queries given to chain.call, in order
    stdout,         \* analyses printed by the query loop
    stderr,         \* eprintln! lines
    result          \* what main returned; Running before

mvars == <<recs, cmp_out, gen_calls, first_out>>
pvars == <<pc, chunk_size, file_exists, rows, customers, chunks, chunk_num,
           chunk_out, all_embeddings, events, index, query_num,
           passthrough_out, lookup_out, prompt, llm_calls, llm_out, call_out,
           submitted, stdout, stderr, result>>
vars == <<mvars, pvars>>

-----------------------------------------------------------------------------
(* Bounds of the model *)

MaxRecords == 6     \* rows in the input file: 0..MaxRecords (more than TOP_K)
MaxChunkSize == 2   \* CHUNK_SIZE ranges over 1..MaxChunkSize
MaxChunks == 3      \* inputs that make at most MaxChunks chunks
MaxQueries == 3     \* the query loop runs the first MaxQueries example queries
MaxGenCalls == 2    \* generate_summary calls per record under test

-----------------------------------------------------------------------------
(* Text helpers *)

RECURSIVE Pow10(_)
Pow10(d) == IF d = 0 THEN 1 ELSE 10 * Pow10(d - 1)

RECURSIVE ZeroPad(_, _)
\* the decimal digits of n, left-padded with zeros to width d
ZeroPad(n, d) ==
    IF d = 0 THEN ""
    ELSE ZeroPad(n \div 10, d - 1) \o ToString(n % 10)

\* Display of an i32
FmtInt(n) == ToString(n)

\* "{:.d}" of the f64 x8/8 (x8 >= 0): d decimals, round half to even
FmtFloat(x8, d) ==
    LET num     == x8 * Pow10(d)
        q       == num \div 8
        r       == num % 8
        rounded == IF r > 4 \/ (r = 4 /\ q % 2 = 1) THEN q + 1 ELSE q
    IN  ToString(rounded \div Pow10(d)) \o
        (IF d = 0 THEN "" ELSE "." \o ZeroPad(rounded % Pow10(d), d))

\* the character of a byte code (the codes the model's identifiers use)
Chr(c) ==
    CASE c = 48 -> "0" [] c = 49 -> "1" [] c = 50 -> "2" [] c = 51 -> "3"
      [] c = 52 -> "4" [] c = 53 -> "5" [] c = 67 -> "C" [] OTHER -> "?"

RECURSIVE FmtString(_)
\* Display of a String held as bytes
FmtString(s) == IF s = <<>> THEN "" ELSE Chr(Head(s)) \o FmtString(Tail(s))

-----------------------------------------------------------------------------
(* models.rs: CustomerFeedback *)

SourceFields ==
    {"customer_id", "age", "gender", "country", "income", "product_quality",
     "service_quality", "purchase_frequency", "feedback_score",
     "loyalty_level", "satisfaction_score"}

AllFields == SourceFields \cup {"profile_summary"}

\* #[derive(PartialEq)]: field-by-field equality over every field of the struct
DerivedEq(x, y) == \A f \in AllFields : x[f] = y[f]

RECURSIVE StrCmp(_, _)
\* String::cmp: lexicographic order of the bytes
StrCmp(s, t) ==
    IF s = <<>> /\ t = <<>> THEN "Equal"
    ELSE IF s = <<>> THEN "Less"
    ELSE IF t = <<>> THEN "Greater"
    ELSE IF Head(s) < Head(t) THEN "Less"
    ELSE IF Head(s) > Head(t) THEN "Greater"
    ELSE StrCmp(Tail(s), Tail(t))

\* impl Ord for CustomerFeedback
Cmp(x, y) == StrCmp(x.customer_id, y.customer_id)

\* impl PartialOrd for CustomerFeedback
PartialCmp(x, y) == Cmp(x, y)

\* the text generate_summary formats
SummaryText(r) ==
    "Customer Profile: " \o FmtInt(r.age) \o " year old " \o r.gender \o
    " from " \o r.country \o " with income $" \o FmtFloat(r.income, 2) \o
    ". Product Quality Rating: " \o FmtInt(r.product_quality) \o
    "/10, Service Quality: " \o FmtInt(r.service_quality) \o
    "/10. Purchases " \o FmtInt(r.purchase_frequency) \o
    " times per year. Feedback Score: " \o r.feedback_score \o
    ". Loyalty Level: " \o r.loyalty_level \o
    ". Satisfaction Score: " \o FmtFloat(r.satisfaction_score, 1) \o "%"

\* a generate_summary that appends to the summary (push_str) instead of setting it
generate_summary_appends(r) ==
    [r EXCEPT !.profile_summary = r.profile_summary \o SummaryText(r)]

\* a generate_summary that also stores the income it printed, cut to whole
\* units (the income is kept in eighths)
generate_summary_truncates_income(r) ==
    [r EXCEPT !.profile_summary = SummaryText(r),
              !.income = (r.income \div 8) * 8]

\* CustomerFeedback::generate_summary(&mut self): the record after the call
generate_summary(r) == [r EXCEPT !.profile_summary = SummaryText(r)]

-----------------------------------------------------------------------------
(* Values *)

\* a value that is not there yet is None, one that is there is Some(v)
None == <<>>
Some(v) == <<v>>

\* main.rs:131: lookup::<_, _, CustomerFeedback>(index, 5)
TOP_K == 5

\* main.rs:172-178
AllExampleQueries ==
    << "What patterns do you see in high-income customers with low satisfaction scores?",
       "Analyze the relationship between purchase frequency and loyalty levels.",
       "What characteristics define our most satisfied customers?",
       "Identify potential churn risks based on customer patterns.",
       "Find patterns in service quality ratings across different countries." >>

Min(x, y) == IF x < y THEN x ELSE y

\* the queries the model's driver runs
example_queries == SubSeq(AllExampleQueries, 1, Min(MaxQueries, Len(AllExampleQueries)))

\* the record the CSV reader deserializes from the i-th data row:
\* profile_summary is #[serde(skip)], hence String::default()
Row(i) ==
    [ customer_id        |-> <<67, 48 + i>>,
      age                |-> 20 + 7 * i,
      gender             |-> IF i % 2 = 0 THEN "Female" ELSE "Male",
      country            |-> IF i % 3 = 0 THEN "UK" ELSE IF i % 3 = 1 THEN "USA" ELSE "Canada",
      income             |-> 8 * 30000 * i + i,
      product_quality    |-> (3 * i) % 11,
      service_quality    |-> (5 * i) % 11,
      purchase_frequency |-> i,
      feedback_score     |-> IF i % 2 = 0 THEN "High" ELSE "Low",
      loyalty_level      |-> IF i % 3 = 0 THEN "Gold" ELSE "Bronze",
      satisfaction_score |-> 8 * 10 * i + 2 * i,
      profile_summary    |-> "" ]

-----------------------------------------------------------------------------
(* The embedding service and the vector store (rig), as main uses them *)

\* the vector of a text: some function of the text alone
EmbedVec(text) == Len(text) % 3

\* Embedding { document, vec }
Embedding(text) == [document |-> text, vec |-> EmbedVec(text)]

\* EmbeddingsBuilder::documents(chunk).build() on success: one pair per
\* document, the #[embed] field being the embedded text
BuildEmbeddings(chunk) ==
    [i \in 1..Len(chunk) |-> <<chunk[i], Embedding(chunk[i].profile_summary)>>]

\* similarity of two vectors, in eighths (8 is 1.0)
Similarity(u, v) == 8 - 3 * (IF u < v THEN v - u ELSE u - v)

\* how many entries rank before entry i for query vector qv:
\* a higher score, or the same score and inserted earlier
Rank(entries, qv, i) ==
    Cardinality({j \in 1..Len(entries) :
        \/ Similarity(qv, entries[j][2].vec) > Similarity(qv, entries[i][2].vec)
        \/ /\ Similarity(qv, entries[j][2].vec) = Similarity(qv, entries[i][2].vec)
           /\ j < i})

\* index.top_n(query, n) on success: (score, id, document), best first
TopN(entries, query, n) ==
    LET qv == EmbedVec(query)
        at(k) == CHOOSE i \in 1..Len(entries) : Rank(entries, qv, i) = k - 1
    IN  [k \in 1..Min(n, Len(entries)) |->
            << Similarity(qv, entries[at(k)][2].vec),
               "doc" \o ToString(at(k) - 1),
               entries[at(k)][1] >>]

-----------------------------------------------------------------------------
(* main.rs: pure parts *)

RECURSIVE ChunksExact(_, _)
\* slice::chunks_exact(n): a last chunk of fewer than n elements is left out
ChunksExact(s, n) ==
    IF Len(s) < n THEN <<>>
    ELSE <<SubSeq(s, 1, n)>> \o ChunksExact(SubSeq(s, n + 1, Len(s)), n)

RECURSIVE Chunks(_, _)
\* slice::chunks(n)
Chunks(s, n) ==
    IF s = <<>> THEN <<>>
    ELSE <<SubSeq(s, 1, Min(n, Len(s)))>> \o Chunks(SubSeq(s, Min(n, Len(s)) + 1, Len(s)), n)

\* main.rs:144-159: the text of one profile, as its parts
ProfileText(i, hit) ==
    LET score == hit[1]
        profile == hit[3]
    IN << "Profile ", FmtInt(i), ":\n* Similarity Score: ", FmtFloat(score, 3),
          "\n* Customer ID: ", FmtString(profile.customer_id),
          "\n* Demographics: ", FmtInt(profile.age), " year old ", profile.gender,
          " from ", profile.country,
          "\n* Income: $", FmtFloat(profile.income, 2),
          "\n* Satisfaction: ", FmtFloat(profile.satisfaction_score, 1),
          "%\n* Loyalty Level: ", profile.loyalty_level,
          "\n* Purchase Frequency: ", FmtInt(profile.purchase_frequency),
          " purchases/year\n* Product Quality: ", FmtInt(profile.product_quality),
          "/10\n* Service Quality: ", FmtInt(profile.service_quality),
          "/10\n* Feedback Score: ", profile.feedback_score, "\n" >>

RECURSIVE ProfilesTextZeroBased(_, _)
\* the profiles numbered by the index of enumerate(), without the + 1
ProfilesTextZeroBased(profiles, from) ==
    IF from > Len(profiles) THEN <<>>
    ELSE ProfileText(from - 1, profiles[from])
            \o ProfilesTextZeroBased(profiles, from + 1)

RECURSIVE ProfilesText(_, _)
\* main.rs:142-160: profiles.into_iter().enumerate().map(..).collect::<String>()
ProfilesText(profiles, from) ==
    IF from > Len(profiles) THEN <<>>
    ELSE ProfileText(from, profiles[from]) \o ProfilesText(profiles, from + 1)

NoProfilesNotice == "\n\nWarning: No relevant customer profiles found."
RetrievalFailedNotice == "\n\nError: Failed to retrieve relevant customer profiles."

\* a map stage that takes a failed lookup for one that found nothing
MapStageErrAsEmpty(query, maybe_profiles) ==
    IF maybe_profiles.ok /\ maybe_profiles.val # <<>>
    THEN << "Analysis Query: ", query, "\n\nRelevant Customer Profiles (",
            FmtInt(Len(maybe_profiles.val)), " found):\n" >>
         \o ProfilesText(maybe_profiles.val, 1)
    ELSE << "Analysis Query: ", query, NoProfilesNotice >>

\* a map stage without the is_empty test: no profiles are a list of none
MapStageNoEmptyTest(query, maybe_profiles) ==
    IF maybe_profiles.ok
    THEN << "Analysis Query: ", query, "\n\nRelevant Customer Profiles (",
            FmtInt(Len(maybe_profiles.val)), " found):\n" >>
         \o ProfilesText(maybe_profiles.val, 1)
    ELSE << "Analysis Query: ", query, RetrievalFailedNotice >>

\* main.rs:133-168: the closure of the map stage, as the parts of its String
MapStage(query, maybe_profiles) ==
    IF maybe_profiles.ok
    THEN IF maybe_profiles.val = <<>>
         THEN << "Analysis Query: ", query, NoProfilesNotice >>
         ELSE << "Analysis Query: ", query, "\n\nRelevant Customer Profiles (",
                 FmtInt(Len(maybe_profiles.val)), " found):\n" >>
              \o ProfilesText(maybe_profiles.val, 1)
    ELSE << "Analysis Query: ", query, RetrievalFailedNotice >>

\* main.rs:164-165: what the map stage logs
MapStageLog(num, maybe_profiles) ==
    IF maybe_profiles.ok THEN <<>> ELSE << <<"Error retrieving similar profiles", num>> >>

\* a pipeline that gives up on a failed lookup: its error is the output
ChainOutputLookupErr(lookup_result, llm_result) ==
    IF lookup_result.ok THEN llm_result ELSE [ok |-> FALSE, val |-> lookup_result.val]

\* main.rs:169: the output of the pipeline is the output of its last op
ChainOutput(lookup_result, llm_result) == llm_result

-----------------------------------------------------------------------------
(* main.rs: main as a state machine *)

\* the records under test take no part in a run of main
RecordsIdle ==
    /\ recs = <<>> /\ cmp_out = None
    /\ gen_calls = <<>> /\ first_out = <<>>

\* the input files: absent, or with 0..MaxRecords rows of which at most one is
\* malformed (ok is whether the row deserializes, rec what it deserializes to)
InputFiles ==
    { [exists |-> FALSE, rows |-> <<>>] } \cup
    { [exists |-> TRUE,
       rows |-> [i \in 1..n |-> [ok |-> i # bad, rec |-> Row(i)]]] :
         n \in 0..MaxRecords, bad \in 0..MaxRecords }

Init ==
    /\ RecordsIdle
    /\ pc = "check_file"
    /\ chunk_size \in 1..MaxChunkSize
    /\ \E f \in InputFiles : file_exists = f.exists /\ rows = f.rows
    /\ Len(rows) <= MaxChunks * chunk_size
    /\ customers = <<>> /\ chunks = <<>> /\ chunk_num = 0 /\ chunk_out = <<>>
    /\ all_embeddings = <<>> /\ events = <<>> /\ index = None
    /\ query_num = 0
    /\ passthrough_out = None /\ lookup_out = None /\ prompt = None
    /\ llm_calls = <<>> /\ llm_out = None /\ call_out = None
    /\ submitted = <<>> /\ stdout = <<>> /\ stderr = <<>>
    /\ result = "Running"

\* main.rs:44-48
CheckDataFile ==
    /\ pc = "check_file"
    /\ IF file_exists
       THEN pc' = "load" /\ result' = result
       ELSE pc' = "done" /\ result' = "Err"
    /\ UNCHANGED <<mvars, chunk_size, file_exists, rows, customers, chunks, chunk_num,
           chunk_out, all_embeddings, events, index, query_num,
           passthrough_out, lookup_out, prompt, llm_calls, llm_out, call_out,
           submitted, stdout, stderr>>

\* the row deserializes
RowOk(row) == row.ok

\* a load that skips the rows that do not deserialize (filter_map(Result::ok))
LoadCustomersSkipsBadRows ==
    /\ pc = "load"
    /\ customers' = [i \in 1..Len(SelectSeq(rows, RowOk)) |->
                        generate_summary(SelectSeq(rows, RowOk)[i].rec)]
    /\ gen_calls' = [i \in 1..Len(SelectSeq(rows, RowOk)) |-> 1]
    /\ pc' = "split"
    /\ UNCHANGED <<recs, cmp_out, first_out, chunk_size, file_exists, rows, chunks, chunk_num,
           chunk_out, all_embeddings, events, index, query_num,
           passthrough_out, lookup_out, prompt, llm_calls, llm_out, call_out,
           submitted, stdout, stderr, result>>

\* a load without the map that calls generate_summary
LoadCustomersNoSummary ==
    /\ pc = "load"
    /\ IF \E i \in 1..Len(rows) : ~rows[i].ok
       THEN /\ pc' = "done" /\ result' = "Err"
            /\ customers' = customers /\ gen_calls' = gen_calls
       ELSE /\ customers' = [i \in 1..Len(rows) |-> rows[i].rec]
            /\ gen_calls' = [i \in 1..Len(rows) |-> 0]
            /\ pc' = "split" /\ result' = result
    /\ UNCHANGED <<recs, cmp_out, first_out, chunk_size, file_exists, rows, chunks, chunk_num,
           chunk_out, all_embeddings, events, index, query_num,
           passthrough_out, lookup_out, prompt, llm_calls, llm_out, call_out,
           submitted, stdout, stderr>>

\* main.rs:54-71: the rows are deserialized, all of them or the load fails;
\* then generate_summary runs on each record
LoadCustomers ==
    /\ pc = "load"
    /\ IF \E i \in 1..Len(rows) : ~rows[i].ok
       THEN /\ pc' = "done" /\ result' = "Err"
            /\ customers' = customers /\ gen_calls' = gen_calls
       ELSE /\ customers' = [i \in 1..Len(rows) |-> generate_summary(rows[i].rec)]
            /\ gen_calls' = [i \in 1..Len(rows) |-> 1]
            /\ pc' = "split" /\ result' = result
    /\ UNCHANGED <<recs, cmp_out, first_out, chunk_size, file_exists, rows, chunks, chunk_num,
           chunk_out, all_embeddings, events, index, query_num,
           passthrough_out, lookup_out, prompt, llm_calls, llm_out, call_out,
           submitted, stdout, stderr>>

\* main.rs:73-82
SplitChunks ==
    /\ pc = "split"
    /\ chunks' = Chunks(customers, chunk_size)
    /\ all_embeddings' = <<>>
    /\ chunk_num' = 0
    /\ pc' = "chunk_loop"
    /\ UNCHANGED <<mvars, chunk_size, file_exists, rows, customers,
           chunk_out, events, index, query_num,
           passthrough_out, lookup_out, prompt, llm_calls, llm_out, call_out,
           submitted, stdout, stderr, result>>

\* the embedding call of a chunk, as recorded in events
EmbedCall(num, chunk) ==
    [op |-> "embed", arg |-> num,
     docs |-> [i \in 1..Len(chunk) |-> chunk[i].profile_summary]]

\* a sleep of ms milliseconds, as recorded in events
SleepEvent(ms) == [op |-> "sleep", arg |-> ms, docs |-> <<>>]

\* a loop that sends the next chunk without awaiting the call in flight
StartChunkNoAwait ==
    /\ pc \in {"chunk_loop", "embedding"}
    /\ Len(events) < Len(chunks)
    /\ events' = Append(events, EmbedCall(Len(events) + 1, chunks[Len(events) + 1]))
    /\ pc' = "embedding"
    /\ UNCHANGED <<mvars, chunk_size, file_exists, rows, customers, chunks, chunk_num,
           chunk_out, all_embeddings, index, query_num,
           passthrough_out, lookup_out, prompt, llm_calls, llm_out, call_out,
           submitted, stdout, stderr, result>>

\* main.rs:83-84 and 22-27: the loop takes the next chunk and process_chunk
\* sends it to the embedding service
StartChunk ==
    /\ pc = "chunk_loop"
    /\ chunk_num < Len(chunks)
    /\ events' = Append(events, EmbedCall(chunk_num + 1, chunks[chunk_num + 1]))
    /\ pc' = "embedding"
    /\ UNCHANGED <<mvars, chunk_size, file_exists, rows, customers, chunks, chunk_num,
           chunk_out, all_embeddings, index, query_num,
           passthrough_out, lookup_out, prompt, llm_calls, llm_out, call_out,
           submitted, stdout, stderr, result>>

\* main.rs:24-29: build().await returned Ok
EmbedOk ==
    /\ pc = "embedding"
    /\ chunk_out' = BuildEmbeddings(chunks[chunk_num + 1])
    /\ pc' = "chunk_sleep"
    /\ UNCHANGED <<mvars, chunk_size, file_exists, rows, customers, chunks, chunk_num,
           all_embeddings, events, index, query_num,
           passthrough_out, lookup_out, prompt, llm_calls, llm_out, call_out,
           submitted, stdout, stderr, result>>

\* process_chunk(..).await?: an Err of the chunk is returned from main
EmbedErrAborts ==
    /\ pc = "embedding"
    /\ result' = "Err"
    /\ pc' = "done"
    /\ UNCHANGED <<mvars, chunk_size, file_exists, rows, customers, chunks, chunk_num,
           chunk_out, all_embeddings, events, index, query_num,
           passthrough_out, lookup_out, prompt, llm_calls, llm_out, call_out,
           submitted, stdout, stderr>>

\* main.rs:27 and 86-89: build().await returned Err; the ? operator returns it
\* at once, main logs it and continues with the next chunk
EmbedErr ==
    /\ pc = "embedding"
    /\ stderr' = Append(stderr, <<"Error processing chunk", chunk_num + 1>>)
    /\ chunk_num' = chunk_num + 1
    /\ pc' = "chunk_loop"
    /\ UNCHANGED <<mvars, chunk_size, file_exists, rows, customers, chunks,
           chunk_out, all_embeddings, events, index, query_num,
           passthrough_out, lookup_out, prompt, llm_calls, llm_out, call_out,
           submitted, stdout, result>>

\* the new embeddings put in front of the accumulated ones
ExtendFront(acc, embeddings) == embeddings \o acc

\* main.rs:85: all_embeddings.extend(embeddings)
Extend(acc, embeddings) == acc \o embeddings

\* main.rs:31-34 and 85: the 200 ms sleep, then process_chunk returns Ok and
\* main extends all_embeddings
ChunkSleep ==
    /\ pc = "chunk_sleep"
    /\ events' = Append(events, SleepEvent(200))
    /\ all_embeddings' = Extend(all_embeddings, chunk_out)
    /\ chunk_out' = <<>>
    /\ chunk_num' = chunk_num + 1
    /\ pc' = "chunk_loop"
    /\ UNCHANGED <<mvars, chunk_size, file_exists, rows, customers, chunks,
           index, query_num,
           passthrough_out, lookup_out, prompt, llm_calls, llm_out, call_out,
           submitted, stdout, stderr, result>>

\* an index built as soon as main is at the head of the loop, chunks left or not
BuildIndexEarly ==
    /\ pc = "chunk_loop"
    /\ index' = Some(all_embeddings)
    /\ pc' = "query_loop"
    /\ UNCHANGED <<mvars, chunk_size, file_exists, rows, customers, chunks, chunk_num,
           chunk_out, all_embeddings, events, query_num,
           passthrough_out, lookup_out, prompt, llm_calls, llm_out, call_out,
           submitted, stdout, stderr, result>>

\* an index build that takes the first embedding for granted
\* (all_embeddings.first().unwrap()) and ends the run when there is none
BuildIndexNonEmptyOnly ==
    /\ pc = "chunk_loop"
    /\ chunk_num = Len(chunks)
    /\ IF all_embeddings # <<>>
       THEN index' = Some(all_embeddings) /\ pc' = "query_loop" /\ result' = result
       ELSE index' = index /\ pc' = "done" /\ result' = "Err"
    /\ UNCHANGED <<mvars, chunk_size, file_exists, rows, customers, chunks, chunk_num,
           chunk_out, all_embeddings, events, query_num,
           passthrough_out, lookup_out, prompt, llm_calls, llm_out, call_out,
           submitted, stdout, stderr>>

\* main.rs:93-125: the loop is over; the vector store and the agent are built
BuildIndex ==
    /\ pc = "chunk_loop"
    /\ chunk_num = Len(chunks)
    /\ index' = Some(all_embeddings)
    /\ pc' = "query_loop"
    /\ UNCHANGED <<mvars, chunk_size, file_exists, rows, customers, chunks, chunk_num,
           chunk_out, all_embeddings, events, query_num,
           passthrough_out, lookup_out, prompt, llm_calls, llm_out, call_out,
           submitted, stdout, stderr, result>>

\* main.rs:180-182: the loop takes the next query and calls the chain with it
StartQuery ==
    /\ pc = "query_loop"
    /\ query_num < Len(example_queries)
    /\ submitted' = Append(submitted, example_queries[query_num + 1])
    /\ pc' = "parallel"
    /\ UNCHANGED <<mvars, chunk_size, file_exists, rows, customers, chunks, chunk_num,
           chunk_out, all_embeddings, events, index, query_num,
           passthrough_out, lookup_out, prompt, llm_calls, llm_out, call_out,
           stdout, stderr, result>>

\* main.rs:130: the passthrough branch of parallel!
Passthrough ==
    /\ pc = "parallel"
    /\ passthrough_out = None
    /\ passthrough_out' = Some(example_queries[query_num + 1])
    /\ UNCHANGED <<mvars, pc, chunk_size, file_exists, rows, customers, chunks, chunk_num,
           chunk_out, all_embeddings, events, index, query_num,
           lookup_out, prompt, llm_calls, llm_out, call_out,
           submitted, stdout, stderr, result>>

\* main.rs:131: the lookup branch of parallel! returns Ok
LookupOk ==
    /\ pc = "parallel"
    /\ lookup_out = None
    /\ lookup_out' = Some([ok |-> TRUE,
                           val |-> TopN(index[1], example_queries[query_num + 1], TOP_K)])
    /\ UNCHANGED <<mvars, pc, chunk_size, file_exists, rows, customers, chunks, chunk_num,
           chunk_out, all_embeddings, events, index, query_num,
           passthrough_out, prompt, llm_calls, llm_out, call_out,
           submitted, stdout, stderr, result>>

\* main.rs:131: the lookup branch of parallel! returns Err (the query could
\* not be embedded, or the store failed)
LookupErr ==
    /\ pc = "parallel"
    /\ lookup_out = None
    /\ lookup_out' = Some([ok |-> FALSE, val |-> "VectorStoreError"])
    /\ UNCHANGED <<mvars, pc, chunk_size, file_exists, rows, customers, chunks, chunk_num,
           chunk_out, all_embeddings, events, index, query_num,
           passthrough_out, prompt, llm_calls, llm_out, call_out,
           submitted, stdout, stderr, result>>

\* a map stage that runs as soon as the lookup is done, without joining the
\* passthrough branch
MapNoJoin ==
    /\ pc = "parallel"
    /\ lookup_out # None
    /\ prompt' = MapStage(example_queries[query_num + 1], lookup_out[1])
    /\ stderr' = stderr \o MapStageLog(query_num + 1, lookup_out[1])
    /\ pc' = "prompt"
    /\ UNCHANGED <<mvars, chunk_size, file_exists, rows, customers, chunks, chunk_num,
           chunk_out, all_embeddings, events, index, query_num,
           passthrough_out, lookup_out, llm_calls, llm_out, call_out,
           submitted, stdout, result>>

\* main.rs:133-168: both branches are done; the map stage formats the prompt
Map ==
    /\ pc = "parallel"
    /\ passthrough_out # None
    /\ lookup_out # None
    /\ prompt' = MapStage(passthrough_out[1], lookup_out[1])
    /\ stderr' = stderr \o MapStageLog(query_num + 1, lookup_out[1])
    /\ pc' = "prompt"
    /\ UNCHANGED <<mvars, chunk_size, file_exists, rows, customers, chunks, chunk_num,
           chunk_out, all_embeddings, events, index, query_num,
           passthrough_out, lookup_out, llm_calls, llm_out, call_out,
           submitted, stdout, result>>

\* main.rs:169: the prompt stage sends the prompt to the agent
Prompt ==
    /\ pc = "prompt"
    /\ llm_calls' = Append(llm_calls, prompt)
    /\ pc' = "llm"
    /\ UNCHANGED <<mvars, chunk_size, file_exists, rows, customers, chunks, chunk_num,
           chunk_out, all_embeddings, events, index, query_num,
           passthrough_out, lookup_out, prompt, llm_out, call_out,
           submitted, stdout, stderr, result>>

\* main.rs:169 and 182: the agent answers; chain.call returns
LlmOk ==
    /\ pc = "llm"
    /\ llm_out' = Some([ok |-> TRUE, val |-> "analysis"])
    /\ call_out' = Some(ChainOutput(lookup_out[1], llm_out'[1]))
    /\ pc' = "returned"
    /\ UNCHANGED <<mvars, chunk_size, file_exists, rows, customers, chunks, chunk_num,
           chunk_out, all_embeddings, events, index, query_num,
           passthrough_out, lookup_out, prompt, llm_calls,
           submitted, stdout, stderr, result>>

\* main.rs:169 and 182: the agent fails; chain.call returns
LlmErr ==
    /\ pc = "llm"
    /\ llm_out' = Some([ok |-> FALSE, val |-> "PromptError"])
    /\ call_out' = Some(ChainOutput(lookup_out[1], llm_out'[1]))
    /\ pc' = "returned"
    /\ UNCHANGED <<mvars, chunk_size, file_exists, rows, customers, chunks, chunk_num,
           chunk_out, all_embeddings, events, index, query_num,
           passthrough_out, lookup_out, prompt, llm_calls,
           submitted, stdout, stderr, result>>

\* chain.call(query).await?: an Err of the call is returned from main
HandleResultPropagates ==
    /\ pc = "returned"
    /\ IF call_out[1].ok
       THEN /\ stdout' = Append(stdout, <<query_num + 1, call_out[1].val>>)
            /\ pc' = "query_sleep" /\ result' = result
       ELSE /\ stdout' = stdout
            /\ pc' = "done" /\ result' = "Err"
    /\ UNCHANGED <<mvars, chunk_size, file_exists, rows, customers, chunks, chunk_num,
           chunk_out, all_embeddings, events, index, query_num,
           passthrough_out, lookup_out, prompt, llm_calls, llm_out, call_out,
           submitted, stderr>>

\* a match whose Err arm goes on to the next query at once (continue), past
\* the sleep at the end of the loop body
HandleResultErrSkipsSleep ==
    /\ pc = "returned"
    /\ IF call_out[1].ok
       THEN /\ stdout' = Append(stdout, <<query_num + 1, call_out[1].val>>)
            /\ stderr' = stderr
            /\ pc' = "query_sleep"
            /\ UNCHANGED <<query_num, passthrough_out, lookup_out, prompt,
                           llm_calls, llm_out, call_out>>
       ELSE /\ stderr' = Append(stderr, <<"Error analyzing query", query_num + 1>>)
            /\ stdout' = stdout
            /\ query_num' = query_num + 1
            /\ passthrough_out' = None /\ lookup_out' = None /\ prompt' = None
            /\ llm_calls' = <<>> /\ llm_out' = None /\ call_out' = None
            /\ pc' = "query_loop"
    /\ UNCHANGED <<mvars, chunk_size, file_exists, rows, customers, chunks, chunk_num,
           chunk_out, all_embeddings, events, index,
           submitted, result>>

\* main.rs:182-185: the match on the call's result
HandleResult ==
    /\ pc = "returned"
    /\ IF call_out[1].ok
       THEN /\ stdout' = Append(stdout, <<query_num + 1, call_out[1].val>>)
            /\ stderr' = stderr
       ELSE /\ stderr' = Append(stderr, <<"Error analyzing query", query_num + 1>>)
            /\ stdout' = stdout
    /\ pc' = "query_sleep"
    /\ UNCHANGED <<mvars, chunk_size, file_exists, rows, customers, chunks, chunk_num,
           chunk_out, all_embeddings, events, index, query_num,
           passthrough_out, lookup_out, prompt, llm_calls, llm_out, call_out,
           submitted, result>>

\* main.rs:186-188: the 2 s sleep, then the next iteration; the values of the
\* finished invocation are dropped
QuerySleep ==
    /\ pc = "query_sleep"
    /\ events' = Append(events, SleepEvent(2000))
    /\ query_num' = query_num + 1
    /\ passthrough_out' = None /\ lookup_out' = None /\ prompt' = None
    /\ llm_calls' = <<>> /\ llm_out' = None /\ call_out' = None
    /\ pc' = "query_loop"
    /\ UNCHANGED <<mvars, chunk_size, file_exists, rows, customers, chunks, chunk_num,
           chunk_out, all_embeddings, index,
           submitted, stdout, stderr, result>>

\* main.rs:188-190: the loop is over; main returns Ok(())
Finish ==
    /\ pc = "query_loop"
    /\ query_num = Len(example_queries)
    /\ result' = "Ok"
    /\ pc' = "done"
    /\ UNCHANGED <<mvars, chunk_size, file_exists, rows, customers, chunks, chunk_num,
           chunk_out, all_embeddings, events, index, query_num,
           passthrough_out, lookup_out, prompt, llm_calls, llm_out, call_out,
           submitted, stdout, stderr>>

Next ==
    \/ CheckDataFile \/ LoadCustomers \/ SplitChunks
    \/ StartChunk \/ EmbedOk \/ EmbedErr \/ ChunkSleep \/ BuildIndex
    \/ StartQuery \/ Passthrough \/ LookupOk \/ LookupErr \/ Map \/ Prompt
    \/ LlmOk \/ LlmErr \/ HandleResult \/ QuerySleep \/ Finish

Spec == Init /\ [][Next]_vars

\* main.rs:36-37: the tokio runtime drives main to completion; every await of
\* main resolves, with Ok or with Err
FairSpec == Spec /\ WF_vars(Next)

-----------------------------------------------------------------------------
(* models.rs: operations on two records under test *)

\* the records the operations are tried on: identifiers that are prefixes of
\* one another or differ in one byte, two ages, two incomes, with and without
\* an earlier summary
TestRecords ==
    { [Row(1) EXCEPT !.customer_id = id, !.age = age, !.income = income,
                     !.profile_summary = summary] :
        id \in { <<67>>, <<67, 49>>, <<67, 49, 48>>, <<67, 50>> },
        age \in {30, 41},
        income \in {1, 3},
        summary \in {"", "an earlier summary"} }

\* main does not run while the records are under test
MainIdle ==
    /\ pc = "idle"
    /\ chunk_size = 1 /\ file_exists = FALSE /\ rows = <<>>
    /\ customers = <<>> /\ chunks = <<>> /\ chunk_num = 0 /\ chunk_out = <<>>
    /\ all_embeddings = <<>> /\ events = <<>> /\ index = None
    /\ query_num = 0
    /\ passthrough_out = None /\ lookup_out = None /\ prompt = None
    /\ llm_calls = <<>> /\ llm_out = None /\ call_out = None
    /\ submitted = <<>> /\ stdout = <<>> /\ stderr = <<>>
    /\ result = "Running"

InitRecords ==
    /\ MainIdle
    /\ \E a \in TestRecords, b \in TestRecords : recs = <<a, b>>
    /\ cmp_out = None
    /\ gen_calls = <<0, 0>>
    /\ first_out = <<None, None>>

\* models.rs:6 and 39-49: a == b, a.cmp(&b) and a.partial_cmp(&b)
Compare ==
    /\ cmp_out' = Some([eq   |-> DerivedEq(recs[1], recs[2]),
                        ord  |-> Cmp(recs[1], recs[2]),
                        pord |-> PartialCmp(recs[1], recs[2])])
    /\ UNCHANGED <<recs, gen_calls, first_out, pvars>>

\* models.rs:53-64: generate_summary on the k-th record
GenerateSummary(k) ==
    /\ gen_calls[k] < MaxGenCalls
    /\ recs' = [recs EXCEPT ![k] = generate_summary(recs[k])]
    /\ gen_calls' = [gen_calls EXCEPT ![k] = @ + 1]
    /\ first_out' = IF gen_calls[k] = 0
                    THEN [first_out EXCEPT ![k] = Some(recs'[k].profile_summary)]
                    ELSE first_out
    /\ cmp_out' = None
    /\ UNCHANGED pvars

NextRecords ==
    \/ Compare
    \/ \E k \in 1..2 : GenerateSummary(k)

SpecRecords == InitRecords /\ [][NextRecords]_vars

-----------------------------------------------------------------------------
(* Properties of the chunk loop *)

Range(f) == {f[i] : i \in DOMAIN f}

IsEmbed(e) == e.op = "embed"

\* the embedding calls made so far, in order
EmbedCalls == SelectSeq(events, IsEmbed)

\* the embedding call of chunk k failed
ChunkFailed(k) == <<"Error processing chunk", k>> \in Range(stderr)

\* main has left the chunk loop
LeftChunkLoop == pc \in {"query_loop", "parallel", "prompt", "llm", "returned",
                         "query_sleep", "done"}

\* ceil(n / b)
CeilDiv(n, b) == (n + b - 1) \div b

\* C1: failure isolation of the chunk loop.  The embedding calls are those of
\* the chunks 1, 2, ... in order, one each; a failed chunk does not end the
\* run (main returns Err only before the first embedding call); back at the
\* head of the loop, after a success or a failure, the next chunk can be
\* started, or the index built when none is left; and main leaves the chunk
\* loop only with every chunk attempted and the index built.
C1_FailureIsolation ==
    /\ \A k \in 1..Len(EmbedCalls) : EmbedCalls[k].arg = k
    /\ result = "Err" => EmbedCalls = <<>> /\ stderr = <<>>
    /\ pc = "chunk_loop" => Len(EmbedCalls) = chunk_num
    /\ (pc = "chunk_loop" /\ chunk_num < Len(chunks)) => ENABLED StartChunk
    /\ (pc = "chunk_loop" /\ chunk_num >= Len(chunks)) => ENABLED BuildIndex
    /\ (\E k \in 1..Len(chunks) : ChunkFailed(k)) => result # "Err"
    /\ (LeftChunkLoop /\ result # "Err") =>
          /\ Len(EmbedCalls) = Len(chunks)
          /\ index # None

\* a chunk that is not the last one failed, and the index was built
C1_Witness ==
    /\ index # None
    /\ Len(chunks) >= 2
    /\ ChunkFailed(1)
    /\ Len(EmbedCalls) = Len(chunks)

\* C2: between two consecutive embedding calls there is exactly one sleep of
\* 200 ms, whether the earlier call succeeded or failed.
C2_DelayAfterEveryBatch ==
    \A k \in 1..Len(events) :
        (IsEmbed(events[k]) /\ \E j \in (k + 1)..Len(events) : IsEmbed(events[j]))
            => /\ events[k + 1] = SleepEvent(200)
               /\ IsEmbed(events[k + 2])

\* the chunk the i-th record is in
ChunkOf(i) == (i - 1) \div chunk_size + 1

\* the chunk of the i-th record was attempted and did not fail
Embedded(i) ==
    /\ ChunkOf(i) <= chunk_num
    /\ ~ChunkFailed(ChunkOf(i))

\* the positions of those records, in order
EmbeddedRecords == SelectSeq([i \in 1..Len(customers) |-> i], Embedded)

RECURSIVE Flatten(_)
\* the concatenation of a sequence of sequences
Flatten(ss) == IF ss = <<>> THEN <<>> ELSE Head(ss) \o Flatten(Tail(ss))

\* C5: the chunks are a partition of the records into contiguous runs in the
\* original order, each of chunk_size records but a shorter, non-empty last
\* one; there are ceil(N / chunk_size) of them, and when the loop is over
\* exactly that many embedding calls were made: chunk k's texts in call k.
C5_ChunkingInvariant ==
    (pc \notin {"check_file", "load", "split"} /\ result # "Err") =>
        /\ Flatten(chunks) = customers
        /\ Len(chunks) = CeilDiv(Len(customers), chunk_size)
        /\ \A k \in 1..Len(chunks) :
              /\ Len(chunks[k]) >= 1
              /\ Len(chunks[k]) <= chunk_size
              /\ k < Len(chunks) => Len(chunks[k]) = chunk_size
        /\ Len(EmbedCalls) <= CeilDiv(Len(customers), chunk_size)
        /\ \A k \in 1..Len(EmbedCalls) :
              /\ EmbedCalls[k].arg = k
              /\ EmbedCalls[k].docs =
                    [i \in 1..Len(chunks[k]) |->
                        customers[(k - 1) * chunk_size + i].profile_summary]
        /\ LeftChunkLoop => Len(EmbedCalls) = CeilDiv(Len(customers), chunk_size)

\* 3 records in chunks of 2: two calls were made, the first failed and was
\* not made again
C5_Witness ==
    /\ LeftChunkLoop
    /\ Len(customers) = 3 /\ chunk_size = 2
    /\ ChunkFailed(1)
    /\ Len(EmbedCalls) = 2
    /\ Len(chunks[2]) = 1

-----------------------------------------------------------------------------
(* Properties of a pipeline invocation and of the query loop *)

\* the query of the invocation under way
CurrentQuery == example_queries[query_num + 1]

\* the lookup of the invocation under way is over, and failed
LookupFailed == lookup_out # None /\ ~lookup_out[1].ok

\* the lookup of the invocation under way is over, and found nothing
LookupEmpty == lookup_out # None /\ lookup_out[1].ok /\ lookup_out[1].val = <<>>

\* C3: whatever the lookup returned, the map stage produces a prompt, the
\* agent is called with it once, and what chain.call returns is what the agent
\* returned: an Err exactly when the agent failed, and never the lookup's error.
C3_CallResultIsLlmResult ==
    /\ pc \in {"prompt", "llm", "returned", "query_sleep"} => prompt # None
    /\ pc \in {"llm", "returned", "query_sleep"} => llm_calls = <<prompt>>
    /\ (call_out = None) <=> (llm_out = None)
    /\ pc \in {"returned", "query_sleep"} => call_out # None
    /\ call_out # None =>
          /\ call_out = llm_out
          /\ ~call_out[1].ok <=> ~llm_out[1].ok
          /\ call_out[1].val # "VectorStoreError"

\* the lookup failed and the call returned the agent's Ok
C3_Witness ==
    /\ pc = "returned"
    /\ LookupFailed
    /\ call_out[1].ok

\* C7: after a failed lookup the prompt is the query label, the unchanged
\* query and the whole failure notice; the error is logged; and the agent is
\* called with that prompt.
C7_RetrievalFailurePrompt ==
    (LookupFailed /\ pc \in {"prompt", "llm", "returned", "query_sleep"}) =>
        /\ prompt = << "Analysis Query: ", CurrentQuery,
                       "\n\nError: Failed to retrieve relevant customer profiles." >>
        /\ <<"Error retrieving similar profiles", query_num + 1>> \in Range(stderr)
        /\ pc # "prompt" => llm_calls = <<prompt>>

\* the lookup failed and the agent was called with the failure prompt
C7_Witness ==
    /\ LookupFailed
    /\ pc = "llm"
    /\ llm_calls = << << "Analysis Query: ", CurrentQuery, RetrievalFailedNotice >> >>

\* C8: after a lookup that found nothing the prompt is the query label, the
\* unchanged query and the no-profiles notice; nothing is logged as a
\* retrieval error; and the agent is called with that prompt.
C8_EmptyRetrievalPrompt ==
    (LookupEmpty /\ pc \in {"prompt", "llm", "returned", "query_sleep"}) =>
        /\ prompt = << "Analysis Query: ", CurrentQuery,
                       "\n\nWarning: No relevant customer profiles found." >>
        /\ <<"Error retrieving similar profiles", query_num + 1>> \notin Range(stderr)
        /\ pc # "prompt" => llm_calls = <<prompt>>

\* the index is empty, the lookup found nothing and the agent was called with
\* the no-profiles prompt
C8_Witness ==
    /\ index = Some(<<>>)
    /\ LookupEmpty
    /\ pc = "llm"
    /\ llm_calls = << << "Analysis Query: ", CurrentQuery, NoProfilesNotice >> >>

\* the call for query q failed and was logged
QueryFailed(q) == <<"Error analyzing query", q>> \in Range(stderr)

\* the analysis of query q was printed
QueryAnalysed(q) == \E k \in 1..Len(stdout) : stdout[k][1] = q

\* the queries whose result the loop has handled
HandledQueries == 1..(IF pc = "query_sleep" THEN query_num + 1 ELSE query_num)

\* C9: the queries are submitted in list order, one each; a failed call is
\* logged and that query has no analysis, every other handled query has one;
\* and whatever failed, main ends only with every query submitted.
C9_QueryFailureIsolation ==
    /\ submitted = SubSeq(example_queries, 1, Len(submitted))
    /\ pc = "query_loop" => Len(submitted) = query_num
    /\ \A q \in 1..Len(example_queries) :
          /\ (QueryFailed(q) \/ QueryAnalysed(q)) <=> q \in HandledQueries
          /\ ~(QueryFailed(q) /\ QueryAnalysed(q))
    /\ (pc = "done" /\ index # None) =>
          /\ submitted = example_queries
          /\ result = "Ok"

\* the first query failed and every query was submitted
C9_Witness ==
    /\ result = "Ok"
    /\ Len(example_queries) >= 2
    /\ QueryFailed(1)
    /\ submitted = example_queries
    /\ QueryAnalysed(Len(example_queries))

-----------------------------------------------------------------------------
(* Properties of CustomerFeedback *)

\* s is before t in the lexicographic order of the bytes
LexLess(s, t) ==
    \E k \in 1..(Len(t)) :
        /\ \A j \in 1..(k - 1) : j <= Len(s) /\ s[j] = t[j]
        /\ k > Len(s) \/ s[k] < t[k]

SameSource(x, y) == \A f \in SourceFields : x[f] = y[f]

\* C6: a == b exactly when the identifiers are equal, whatever the other
\* fields; cmp is the lexicographic order of the identifiers; and a == b
\* exactly when cmp is Equal.
C6_EqualityByIdentifier ==
    cmp_out # None =>
        LET a == recs[1]
            b == recs[2]
            c == cmp_out[1]
        IN  /\ c.eq <=> (a.customer_id = b.customer_id)
            /\ c.eq <=> (c.ord = "Equal")
            /\ (c.ord = "Less") <=> LexLess(a.customer_id, b.customer_id)
            /\ (c.ord = "Greater") <=> LexLess(b.customer_id, a.customer_id)
            /\ c.pord = c.ord

\* C10: a record that generate_summary ran on, once or more, has the summary
\* the first call gave it; and two such records with the same source fields
\* have the same summary.
C10_SummaryIdempotent ==
    /\ \A k \in 1..2 :
          gen_calls[k] >= 1 => recs[k].profile_summary = first_out[k][1]
    /\ (gen_calls[1] >= 1 /\ gen_calls[2] >= 1 /\ SameSource(recs[1], recs[2]))
          => recs[1].profile_summary = recs[2].profile_summary

\* generate_summary ran twice on one record and once on another with the
\* same source fields
C10_Witness ==
    /\ gen_calls = <<2, 1>>
    /\ SameSource(recs[1], recs[2])
    /\ recs[1].profile_summary = SummaryText(recs[2])

-----------------------------------------------------------------------------
(* Further properties of the chunk loop *)

\* the embedding calls that have returned; the result of all but the one
\* main sleeps after has been handled
ReturnedCalls == chunk_num + (IF pc = "chunk_sleep" THEN 1 ELSE 0)

\* the embedding calls sent and not yet returned
CallsInFlight == Len(EmbedCalls) - ReturnedCalls

\* the pairs of chunk k are in all_embeddings
ChunkStored(k) ==
    \A i \in 1..Len(chunks[k]) :
        \E j \in 1..Len(all_embeddings) : all_embeddings[j][1] = chunks[k][i]

\* C11: at most one embedding call is in flight, and only while main awaits
\* it; the call of a chunk is sent only when the calls of all chunks before
\* it have returned and their results were handled (logged as failed, or
\* their pairs stored).
C11_OneEmbeddingCallAtATime ==
    /\ CallsInFlight \in {0, 1}
    /\ CallsInFlight = 1 <=> pc = "embedding"
    /\ Len(EmbedCalls) <= chunk_num + 1
    /\ \A k \in 1..Len(EmbedCalls) :
          k <= chunk_num => (ChunkFailed(k) \/ ChunkStored(k))
    /\ \A k \in 1..Len(chunks) :
          (ChunkFailed(k) \/ ChunkStored(k)) => k <= chunk_num

\* the call of the third chunk is in flight; the first failed, the second
\* was stored
C11_Witness ==
    /\ pc = "embedding"
    /\ Len(EmbedCalls) = 3
    /\ ChunkFailed(1)
    /\ ChunkStored(2) /\ ~ChunkFailed(2)

-----------------------------------------------------------------------------
(* Further properties of a pipeline invocation *)

\* the query chain.call was last given
InputQuery == submitted[Len(submitted)]

\* C12: the map stage has run only if both branches of parallel! are done,
\* whichever was done first, and cannot run before; the agent is called only
\* with the prompt of the map stage; and the query the passthrough branch
\* hands to the map stage, and the one in the prompt, is the input query.
C12_MergeAfterBothBranches ==
    /\ prompt # None => passthrough_out # None /\ lookup_out # None
    /\ (pc = "parallel" /\ (passthrough_out = None \/ lookup_out = None))
          => ~ENABLED Map
    /\ pc = "parallel" => prompt = None /\ llm_calls = <<>>
    /\ llm_calls # <<>> => prompt # None /\ llm_calls = <<prompt>>
    /\ passthrough_out # None => passthrough_out[1] = InputQuery
    /\ prompt # None => prompt[2] = InputQuery

\* both branches are done, the map stage has run and the agent was called
C12_Witness ==
    /\ pc = "llm"
    /\ passthrough_out = Some(InputQuery)
    /\ lookup_out # None
    /\ llm_calls = <<prompt>>
    /\ prompt[2] = example_queries[2]

-----------------------------------------------------------------------------
(* Properties of the records along a run of main *)

\* a pair of all_embeddings or of the index carries a record of customers
\* with its summary, and that summary is the text that was embedded
PairCarriesSummary(pair) ==
    /\ \E i \in 1..Len(customers) : pair[1] = customers[i]
    /\ pair[1].profile_summary = SummaryText(pair[1])
    /\ pair[2].document = pair[1].profile_summary

\* C13: before the load no summary exists and no embedding call is made; from
\* the load on, generate_summary has run exactly once on every record, whose
\* summary is the text of its source fields as read from the file, in every
\* later state; the texts sent to the embedding service, the pairs collected
\* and the entries of the index carry that summary.
C13_SummaryPopulatedOnce ==
    /\ pc \in {"check_file", "load"} => gen_calls = <<>> /\ events = <<>>
    /\ events # <<>> => gen_calls = [i \in 1..Len(rows) |-> 1]
    /\ (pc \notin {"check_file", "load"} /\ result # "Err") =>
          /\ gen_calls = [i \in 1..Len(rows) |-> 1]
          /\ Len(customers) = Len(rows)
          /\ \A i \in 1..Len(rows) :
                /\ SameSource(customers[i], rows[i].rec)
                /\ customers[i].profile_summary = SummaryText(rows[i].rec)
                /\ customers[i].profile_summary # ""
          /\ pc # "split" => Flatten(chunks) = customers
          /\ \A k \in 1..Len(EmbedCalls) :
                \A i \in 1..Len(EmbedCalls[k].docs) :
                    EmbedCalls[k].docs[i] =
                        SummaryText(rows[(k - 1) * chunk_size + i].rec)
          /\ \A j \in 1..Len(chunk_out) : PairCarriesSummary(chunk_out[j])
          /\ \A j \in 1..Len(all_embeddings) : PairCarriesSummary(all_embeddings[j])
          /\ index # None =>
                \A j \in 1..Len(index[1]) : PairCarriesSummary(index[1][j])

\* the index holds every record of a file of two or more rows, each with the
\* summary generated at the load
C13_Witness ==
    /\ index # None
    /\ Len(rows) >= 2
    /\ Len(index[1]) = Len(rows)
    /\ gen_calls = [i \in 1..Len(rows) |-> 1]
    /\ index[1][2][2].document = SummaryText(rows[2].rec)

-----------------------------------------------------------------------------
(* Properties of the start of main *)

\* the data file is missing, or one of its rows does not deserialize
LoadFails == ~file_exists \/ \E i \in 1..Len(rows) : ~rows[i].ok

\* nothing was processed: no record kept, no chunk, no embedding call, no
\* pair, no index, no query, no call of the agent, no output
NothingProcessed ==
    /\ customers = <<>> /\ chunks = <<>> /\ gen_calls = <<>>
    /\ events = <<>> /\ chunk_out = <<>> /\ all_embeddings = <<>>
    /\ index = None
    /\ submitted = <<>> /\ llm_calls = <<>> /\ prompt = None
    /\ stdout = <<>> /\ stderr = <<>>

\* C14: with a missing file or a malformed row main gets no further than the
\* load, ends with Err, and nothing is processed, the rows that do
\* deserialize included; and main ends with Err in no other case.
C14_LoadErrorAborts ==
    /\ LoadFails =>
          /\ pc \in {"check_file", "load", "done"}
          /\ pc = "done" => result = "Err"
          /\ NothingProcessed
    /\ result = "Err" => LoadFails /\ pc = "done" /\ NothingProcessed

\* main ended with Err on a file whose second row is malformed and whose
\* first and third rows are not
C14_Witness ==
    /\ result = "Err"
    /\ file_exists
    /\ Len(rows) >= 3
    /\ rows[1].ok /\ ~rows[2].ok /\ rows[3].ok
    /\ NothingProcessed

-----------------------------------------------------------------------------
(* Properties of the vector index *)

\* the index is there only when the chunk loop is over, every chunk was
\* attempted, and it holds the pairs the loop collected; it is there whenever
\* main got past the loop; and a query is submitted only when it is there
IndexBuiltAfterLoop ==
    /\ index # None =>
          /\ LeftChunkLoop
          /\ chunk_num = Len(chunks)
          /\ Len(EmbedCalls) = Len(chunks)
          /\ index[1] = all_embeddings
    /\ (LeftChunkLoop /\ result # "Err") => index # None
    /\ submitted # <<>> => index # None
    /\ llm_calls # <<>> => index # None

\* C15: the index is built when the chunk loop is over, from the pairs the
\* loop collected, and before any query; it is set in the one step from the
\* loop to the queries and in no other; and once built it is the same in
\* every later state, whatever the queries and the agent do.
C15_IndexBuiltOnceReadOnly ==
    /\ []IndexBuiltAfterLoop
    /\ [][index' # index => (pc = "chunk_loop" /\ pc' = "query_loop" /\ index = None)]_vars
    /\ [][index # None => index' = index]_vars

\* main returned Ok after queries that failed and queries that did not, with
\* an index of two or more entries
C15_Witness ==
    /\ result = "Ok"
    /\ index # None
    /\ Len(index[1]) >= 2
    /\ index[1] = all_embeddings
    /\ QueryFailed(1)
    /\ QueryAnalysed(2)

-----------------------------------------------------------------------------
(* Properties of the prompt *)

\* the parts the text of one profile is made of (main.rs:145: 13 slots
\* between and around 14 pieces of the template)
ProfileParts == 27

\* the prompt lists profiles
IsProfileList(p) ==
    /\ Len(p) >= 5
    /\ p[3] = "\n\nRelevant Customer Profiles ("
    /\ p[5] = " found):\n"

\* the prompt carries the no-profiles notice
IsNoProfiles(p) ==
    /\ Len(p) = 3
    /\ p[3] = "\n\nWarning: No relevant customer profiles found."

\* the prompt carries the retrieval-failure notice
IsRetrievalFailure(p) ==
    /\ Len(p) = 3
    /\ p[3] = "\n\nError: Failed to retrieve relevant customer profiles."

\* the k-th part of the i-th profile of the prompt
ProfilePart(p, i, k) == p[5 + (i - 1) * ProfileParts + k]

\* C16: the agent is called at most once in an invocation, and once when the
\* map stage is over; the prompt is the label, the input query and then one
\* of the profile list (after a lookup that found some), the no-profiles
\* notice (after one that found none) and the failure notice (after one that
\* failed); a list states the number n of hits, 1 <= n <= 5, and holds n
\* profiles numbered 1..n, the i-th being the i-th hit of the lookup.
C16_PromptShape ==
    /\ Len(llm_calls) <= 1
    /\ pc \in {"llm", "returned", "query_sleep"} =>
          /\ Len(llm_calls) = 1
          /\ LET p   == llm_calls[1]
                 out == lookup_out[1]
             IN  /\ p[1] = "Analysis Query: "
                 /\ p[2] = InputQuery
                 /\ IsRetrievalFailure(p) <=> ~out.ok
                 /\ IsNoProfiles(p) <=> (out.ok /\ out.val = <<>>)
                 /\ IsProfileList(p) <=> (out.ok /\ out.val # <<>>)
                 /\ IsProfileList(p) =>
                       LET n == Len(out.val)
                       IN  /\ n >= 1 /\ n <= 5
                           /\ n <= Len(index[1])
                           /\ p[4] = FmtInt(n)
                           /\ Len(p) = 5 + n * ProfileParts
                           /\ \A i \in 1..n :
                                 /\ ProfilePart(p, i, 1) = "Profile "
                                 /\ ProfilePart(p, i, 2) = FmtInt(i)
                                 /\ ProfilePart(p, i, 4) = FmtFloat(out.val[i][1], 3)
                                 /\ ProfilePart(p, i, 6) = FmtString(out.val[i][3].customer_id)
                                 /\ ProfilePart(p, i, ProfileParts) = "\n"

\* the index has more entries than the lookup returns: the agent is called
\* with a list of five profiles
C16_Witness ==
    /\ pc = "llm"
    /\ Len(index[1]) = 6
    /\ IsProfileList(llm_calls[1])
    /\ llm_calls[1][4] = "5"
    /\ ProfilePart(llm_calls[1], 5, 2) = "5"

-----------------------------------------------------------------------------
(* Properties of a run without embeddings *)

\* the input was loaded and no chunk of it was embedded: there is no record,
\* or the embedding call of every chunk failed
NothingEmbedded ==
    /\ pc \notin {"check_file", "load", "split"}
    /\ result # "Err"
    /\ chunk_num = Len(chunks)
    /\ \A k \in 1..Len(chunks) : ChunkFailed(k)

\* main returned Ok after the whole list of queries
ReturnedOk ==
    /\ pc = "done"
    /\ result = "Ok"
    /\ submitted = example_queries
    /\ query_num = Len(example_queries)

\* C17: when no chunk was embedded (no record, or every embedding call
\* failed) all_embeddings is empty and the index, once built, is the empty
\* one; main returns Err only for a missing or unreadable input, whatever
\* failed later; main returns Ok only after every example query was
\* submitted; and such a run does reach the return of Ok.
C17_RunWithoutEmbeddingsCompletes ==
    /\ [](NothingEmbedded => all_embeddings = <<>>)
    /\ []((NothingEmbedded /\ LeftChunkLoop) => index = Some(<<>>))
    /\ [](result = "Err" => (~file_exists \/ \E i \in 1..Len(rows) : ~rows[i].ok))
    /\ []((pc = "done" /\ result # "Err") => ReturnedOk)
    /\ (NothingEmbedded ~> ReturnedOk)

\* every one of several chunks failed, and so did every query; main returned
\* Ok with the empty index
C17_Witness ==
    /\ ReturnedOk
    /\ Len(chunks) >= 2
    /\ NothingEmbedded
    /\ index = Some(<<>>)
    /\ \A q \in 1..Len(example_queries) : QueryFailed(q)

-----------------------------------------------------------------------------
(* Properties of the query loop *)

IsQuerySleep(e) == e = SleepEvent(2000)

\* the 2 s sleeps taken so far
QuerySleeps == SelectSeq(events, IsQuerySleep)

\* an invocation of the chain is under way, or returned and not yet slept on
InInvocation == pc \in {"parallel", "prompt", "llm", "returned", "query_sleep"}

\* C18: the queries submitted so far are the first ones of the list, in
\* order, one each; at most one invocation is under way; a query is submitted
\* only when each earlier one has returned (its analysis printed or its error
\* logged, never both) and was followed by a 2 s sleep, so there are as many
\* sleeps as queries done, failed ones included, and the sleep is the last
\* thing before the next submission.
C18_QueriesOneAtATime ==
    /\ Len(submitted) <= Len(example_queries)
    /\ submitted = SubSeq(example_queries, 1, Len(submitted))
    /\ Len(submitted) = query_num + (IF InInvocation THEN 1 ELSE 0)
    /\ Len(QuerySleeps) = query_num
    /\ \A q \in 1..query_num : QueryFailed(q) # QueryAnalysed(q)
    /\ \A q \in (Len(submitted) + 1)..Len(example_queries) :
          ~QueryFailed(q) /\ ~QueryAnalysed(q)
    /\ (pc = "query_loop" /\ query_num >= 1) => IsQuerySleep(events[Len(events)])
    /\ pc = "parallel" => Len(QuerySleeps) = Len(submitted) - 1
    /\ pc = "returned" => ENABLED HandleResult
    /\ pc = "query_sleep" => ENABLED QuerySleep

\* the third query is under way after a failed first and an analysed second
\* one, two sleeps taken
C18_Witness ==
    /\ pc = "parallel"
    /\ Len(submitted) = 3
    /\ QueryFailed(1) /\ QueryAnalysed(2)
    /\ Len(QuerySleeps) = 2

-----------------------------------------------------------------------------
(* Frame of generate_summary *)

\* the record y has the fields of x with the values of x, but for the summary
OnlySummaryDiffers(x, y) ==
    /\ DOMAIN y = DOMAIN x
    /\ \A f \in {"customer_id", "age", "gender", "country", "income",
                 "product_quality", "service_quality", "purchase_frequency",
                 "feedback_score", "loyalty_level", "satisfaction_score"} :
          y[f] = x[f]

\* C19: a call of generate_summary on a record leaves each of its eleven
\* source fields as it was (and the other record untouched); a comparison
\* changes no record at all.
C19_SummaryOnlyFrame ==
    [][/\ \A k \in 1..2 : OnlySummaryDiffers(recs[k], recs'[k])
       /\ \A k \in 1..2 :
             gen_calls'[k] = gen_calls[k] => recs'[k] = recs[k]]_vars

\* generate_summary ran on the first record, whose income is not a whole
\* number of units, and replaced its earlier summary; the second record has
\* not been touched
C19_Witness ==
    /\ gen_calls = <<1, 0>>
    /\ recs[1].income = 3
    /\ recs[1].profile_summary = SummaryText(recs[1])
    /\ recs[1].profile_summary # "an earlier summary"
    /\ recs[2].profile_summary = "an earlier summary"

====
